---- MODULE Spec2Model ----
(***************************************************************************)
(* deeplink: mirror a source tree into a destination with links or copies. *)
(*                                                                         *)
(* A pathlib path is the sequence of its parts ("/" first when absolute,   *)
(* ".." kept as a part, "." dropped).  The filesystem maps canonical       *)
(* absolute locations (sequences of names below the root <<>>) to nodes.   *)
(***************************************************************************)
EXTENDS Integers, Sequences, FiniteSets, TLC

VARIABLES fs, fs0, args, cache, stack, pc, trace, calls

vars == <<fs, fs0, args, cache, stack, pc, trace, calls>>

\* ------------------------------------------------------------------------
\* Bounds of the model
\* ------------------------------------------------------------------------

\* deepest chain of create_links calls that is followed before the
\* interpreter gives up (RecursionError / ENAMETOOLONG in the program)
MaxDepth == 3

\* symbolic links followed in one path resolution before ELOOP
SymFuel == 3

\* the process's working directory
CWD == <<"cw">>

\* ------------------------------------------------------------------------
\* pathlib path arithmetic
\* ------------------------------------------------------------------------

IsAbs(p) == Len(p) > 0 /\ p[1] = "/"

\* PurePath.__truediv__: an absolute right operand replaces the left one
Join(a, b) == IF IsAbs(b) THEN b ELSE a \o b

\* PurePath.parent of a path with at least one name
PathParent(p) == SubSeq(p, 1, Len(p) - 1)

\* Path.absolute(): prefix the working directory, leave ".." alone
Absolute(p) == IF IsAbs(p) THEN p ELSE <<"/">> \o CWD \o p

RECURSIVE StripCommon(_, _)
\* the loop `while head and result and head[0] == result[0]: del head[0], result[0]`
StripCommon(head, result) ==
  IF Len(head) > 0 /\ Len(result) > 0 /\ head[1] = result[1]
  THEN StripCommon(Tail(head), Tail(result))
  ELSE <<head, result>>

\* remove_front_dir: both return statements build the path whose parts are
\* the stripped result ("/" + "//a" collapses to "/a")
remove_front_dir(head_path, item) == StripCommon(head_path, item)[2]

Ups(n) == [i \in 1..n |-> ".."]

relative_path(src, dest) ==
  IF IsAbs(dest) THEN dest
  ELSE LET r == StripCommon(Absolute(src), Absolute(dest))
       IN  Ups(Len(r[1])) \o r[2]

\* ------------------------------------------------------------------------
\* Filesystem
\* ------------------------------------------------------------------------

DirNode(at)        == [type |-> "dir", target |-> <<>>, data |-> "", ino |-> at]
FileNode(at, d)    == [type |-> "file", target |-> <<>>, data |-> d, ino |-> at]
LinkNode(at, t)    == [type |-> "symlink", target |-> t, data |-> "", ino |-> at]

Failed == [ok |-> FALSE, at |-> <<>>, present |-> FALSE]

CanonParent(c) == IF Len(c) = 0 THEN c ELSE SubSeq(c, 1, Len(c) - 1)

RECURSIVE Walk(_, _, _, _, _)
\* POSIX path resolution from directory cur along the parts rest.
\* ok: the walk succeeded up to the last part; present: the last part names
\* an entry; at: its canonical location (or where it would be created).
Walk(f, cur, rest, follow, fuel) ==
  IF rest = <<>> THEN [ok |-> TRUE, at |-> cur, present |-> TRUE]
  ELSE LET seg == Head(rest)
           tl  == Tail(rest)
           nxt == Append(cur, seg)
       IN  IF seg = "/" THEN Walk(f, <<>>, tl, follow, fuel)
           ELSE IF seg = ".." THEN Walk(f, CanonParent(cur), tl, follow, fuel)
           ELSE IF nxt \notin DOMAIN f
                THEN IF tl = <<>> THEN [ok |-> TRUE, at |-> nxt, present |-> FALSE]
                                  ELSE Failed
           ELSE IF f[nxt].type = "symlink" /\ (tl # <<>> \/ follow)
                THEN IF fuel = 0 THEN Failed
                     ELSE Walk(f, cur, f[nxt].target \o tl, follow, fuel - 1)
           ELSE IF f[nxt].type = "dir" THEN Walk(f, nxt, tl, follow, fuel)
           ELSE IF tl = <<>> THEN [ok |-> TRUE, at |-> nxt, present |-> TRUE]
                             ELSE Failed

Stat(f, p)  == Walk(f, CWD, p, TRUE, SymFuel)
Lstat(f, p) == Walk(f, CWD, p, FALSE, SymFuel)

\* Path.exists(), Path.is_dir() follow symbolic links; Path.is_symlink() does not
Exists(f, p)    == Stat(f, p).ok /\ Stat(f, p).present
IsDir(f, p)     == Exists(f, p) /\ f[Stat(f, p).at].type = "dir"
IsSymlink(f, p) == Lstat(f, p).ok /\ Lstat(f, p).present
                   /\ f[Lstat(f, p).at].type = "symlink"

\* os.listdir behind Path.iterdir(): the names directly below the directory
ListDir(f, p) ==
  LET c == Stat(f, p).at
  IN  { q[Len(q)] : q \in { r \in DOMAIN f : Len(r) = Len(c) + 1
                                            /\ SubSeq(r, 1, Len(c)) = c } }

\* outcome of a filesystem call: res is "done" or "oserror"
Outcome(r, f, a) == [res |-> r, fs |-> f, at |-> a]

\* os.mkdir: the last part is not followed; an existing entry is EEXIST
OsMkdir(f, p) ==
  LET l == Lstat(f, p)
  IN  IF l.ok /\ ~l.present
      THEN Outcome("done", (l.at :> DirNode(l.at)) @@ f, l.at)
      ELSE Outcome("oserror", f, <<>>)

\* os.symlink(content, p)
OsSymlink(f, content, p) ==
  LET l == Lstat(f, p)
  IN  IF l.ok /\ ~l.present
      THEN Outcome("done", (l.at :> LinkNode(l.at, content)) @@ f, l.at)
      ELSE Outcome("oserror", f, <<>>)

\* os.link(existing, new): both resolved from the working directory
OsLink(f, existing, new) ==
  LET e == Lstat(f, existing)
      n == Lstat(f, new)
  IN  IF e.ok /\ e.present /\ f[e.at].type # "dir" /\ n.ok /\ ~n.present
      THEN Outcome("done", (n.at :> f[e.at]) @@ f, n.at)
      ELSE Outcome("oserror", f, <<>>)

\* shutil.copyfile(src, dst): both ends follow symbolic links; the same file
\* at both ends is SameFileError; the destination is created or truncated
ShutilCopyfile(f, src, dst) ==
  LET s == Stat(f, src)
      d == Stat(f, dst)
  IN  IF ~(s.ok /\ s.present /\ s.at # <<>>) THEN Outcome("oserror", f, <<>>)
      ELSE IF f[s.at].type # "file" THEN Outcome("oserror", f, <<>>)
      ELSE IF ~d.ok THEN Outcome("oserror", f, <<>>)
      ELSE IF d.present /\ (d.at = <<>> \/ f[d.at].type # "file")
           THEN Outcome("oserror", f, <<>>)
      ELSE IF d.present /\ f[d.at].ino = f[s.at].ino THEN Outcome("oserror", f, <<>>)
      ELSE IF d.present
           THEN Outcome("done", [f EXCEPT ![d.at].data = f[s.at].data], d.at)
           ELSE Outcome("done", (d.at :> FileNode(d.at, f[s.at].data)) @@ f, d.at)

\* ------------------------------------------------------------------------
\* Pattern matching policy
\* ------------------------------------------------------------------------

\* The regular expressions of the model: `.*NAME.*` ("contains") and a literal
\* path such as `in/d` ("literal").  No name of the model is a substring of
\* another, so on these paths the two forms decide exactly as re.match does.
Contains(n) == [kind |-> "contains", arg |-> <<n>>]
Literal(p)  == [kind |-> "literal", arg |-> p]

re_compile(regexp) == [pattern |-> regexp]

\* Pattern.match(item.as_posix()): anchored at the start, not at the end
re_match(re, p) ==
  IF re.pattern.kind = "contains"
  THEN \E i \in 1..Len(p) : p[i] = re.pattern.arg[1]
  ELSE Len(re.pattern.arg) <= Len(p)
       /\ SubSeq(p, 1, Len(re.pattern.arg)) = re.pattern.arg

CompileAll(patterns) == [i \in 1..Len(patterns) |-> re_compile(patterns[i])]

\* the loop over ignore_files_re that sets skip_item
SkipItemFirstOnly(ignore_files_re, item) ==
  Len(ignore_files_re) > 0 /\ re_match(ignore_files_re[1], item)

SkipItem(ignore_files_re, item) ==
  \E i \in 1..Len(ignore_files_re) : re_match(ignore_files_re[i], item)

\* the loop over copy_files_re that sets copy_required
CopyRequired(copy_files_re, item) ==
  \E i \in 1..Len(copy_files_re) : re_match(copy_files_re[i], item)

\* ------------------------------------------------------------------------
\* Executors.  res: "done" (created, or reported by the dry run), "noop",
\* "conflict" (FileReplacementError / DirectoryReplacementError), "oserror"
\* (any other exception, which main does not catch)
\* ------------------------------------------------------------------------

DryRunExecutor_mkdir(f, path) ==
  IF Exists(f, path)
  THEN IF ~IsDir(f, path) THEN Outcome("conflict", f, <<>>)
                          ELSE Outcome("noop", f, <<>>)
  ELSE Outcome("done", f, <<>>)

DryRunExecutor_link(f, src, target) ==
  IF Exists(f, target) \/ IsSymlink(f, target)
  THEN Outcome("conflict", f, <<>>)
  ELSE Outcome("done", f, <<>>)

DryRunExecutor_copy(f, src, target) ==
  IF Exists(f, target) /\ IsDir(f, target)
  THEN Outcome("conflict", f, <<>>)
  ELSE Outcome("done", f, <<>>)

LinkExecutor_mkdir(f, path) ==
  IF Exists(f, path)
  THEN IF ~IsDir(f, path) THEN Outcome("conflict", f, <<>>)
                          ELSE Outcome("noop", f, <<>>)
  ELSE OsMkdir(f, path)

\* target.link_to(src) is os.link(target, src): the hard link would be made
\* at src, to the file at target; target.symlink_to(src) is os.symlink(src, target)
LinkExecutor_link(f, hard, src, target) ==
  IF Exists(f, target) \/ IsSymlink(f, target)
  THEN Outcome("conflict", f, <<>>)
  ELSE LET rel == relative_path(PathParent(target), src)
       IN  IF hard THEN OsLink(f, target, rel)
                   ELSE OsSymlink(f, rel, target)

LinkExecutor_copy(f, src, target) ==
  IF Exists(f, target) /\ IsDir(f, target)
  THEN Outcome("conflict", f, <<>>)
  ELSE ShutilCopyfile(f, src, target)

\* executor = DryRunExecutor() if args.dry_run else LinkExecutor(args.hard_links)
Executor_mkdir(a, f, path) ==
  IF a.dry_run THEN DryRunExecutor_mkdir(f, path) ELSE LinkExecutor_mkdir(f, path)

Executor_link(a, f, src, target) ==
  IF a.dry_run THEN DryRunExecutor_link(f, src, target)
               ELSE LinkExecutor_link(f, a.hard_links, src, target)

Executor_copy(a, f, src, target) ==
  IF a.dry_run THEN DryRunExecutor_copy(f, src, target)
               ELSE LinkExecutor_copy(f, src, target)

\* ------------------------------------------------------------------------
\* Initial states: the configurations and filesystems of the model
\* ------------------------------------------------------------------------

\* (source, destination) as given on the command line
Spellings ==
  { <<<<"in">>, <<"out">>>>, <<<<"in">>, <<"in", "out">>>>,
    <<<<"in">>, <<"/", "cw", "in", "out">>>>, <<<<"in">>, <<"..", "out">>>>,
    <<<<"/", "cw", "in">>, <<"out">>>> }

CopyOptions ==
  { <<<<>>, <<>>>>, <<<<Contains("f")>>, <<>>>>, <<<<>>, <<Contains("d")>>>> }

IgnoreOptions ==
  { <<<<>>, <<>>>>, <<<<Contains("x")>>, <<Contains("f")>>>>,
    <<<<Literal(<<"in", "d">>)>>, <<>>>> }

SourceExtras == { "none", "s->d", "s->nowhere" }

DestinationStates ==
  { "absent", "empty", "file@d", "file@f", "dir@f", "dangling@d", "isfile" }

Src == <<"cw", "in">>

BaseTree ==
  (<<>> :> DirNode(<<>>)) @@ (CWD :> DirNode(CWD)) @@ (Src :> DirNode(Src))
  @@ (Append(Src, "f") :> FileNode(Append(Src, "f"), "F"))
  @@ (Append(Src, "d") :> DirNode(Append(Src, "d")))
  @@ (Src \o <<"d", "g">> :> FileNode(Src \o <<"d", "g">>, "G"))

WithExtra(f, x) ==
  IF x = "s->d" THEN (Append(Src, "s") :> LinkNode(Append(Src, "s"), <<"d">>)) @@ f
  ELSE IF x = "s->nowhere"
       THEN (Append(Src, "s") :> LinkNode(Append(Src, "s"), <<"nowhere">>)) @@ f
  ELSE f

\* what is at the destination before the run; c is its canonical location
WithDestination(f, c, st) ==
  LET cd == Append(c, "d")
      cf == Append(c, "f")
  IN  IF st = "absent" THEN f
      ELSE IF st = "isfile" THEN (c :> FileNode(c, "OLD")) @@ f
      ELSE IF st = "empty" THEN (c :> DirNode(c)) @@ f
      ELSE IF st = "file@d" THEN (c :> DirNode(c)) @@ (cd :> FileNode(cd, "OLD")) @@ f
      ELSE IF st = "file@f" THEN (c :> DirNode(c)) @@ (cf :> FileNode(cf, "OLD")) @@ f
      ELSE IF st = "dir@f" THEN (c :> DirNode(c)) @@ (cf :> DirNode(cf)) @@ f
      ELSE (c :> DirNode(c)) @@ (cd :> LinkNode(cd, <<"nowhere">>)) @@ f

EmptyCache == [k \in {} |-> <<>>]

Init ==
  /\ \E sp \in Spellings, hard \in BOOLEAN, dry \in BOOLEAN,
        cp \in CopyOptions, ign \in IgnoreOptions :
       args = [source |-> sp[1], destination |-> sp[2], hard_links |-> hard,
               dry_run |-> dry, copy |-> cp[1], copy_list_file |-> cp[2],
               ignore |-> ign[1], ignore_list_file |-> ign[2]]
  /\ \E x \in SourceExtras, st \in DestinationStates :
       /\ x = "none" \/ st \in {"absent", "empty"}
       /\ fs = WithDestination(WithExtra(BaseTree, x),
                            Lstat(BaseTree, args.destination).at, st)
  /\ fs0 = fs
  /\ cache = EmptyCache
  /\ stack = <<>>
  /\ pc = "start"
  /\ trace = <<>>
  /\ calls = <<>>

\* ------------------------------------------------------------------------
\* main and the tree walker
\* ------------------------------------------------------------------------

\* an exception leaves every create_links frame and ends the run in main
PropagateSwallowConflict(res) == IF res = "oserror" THEN "oserror" ELSE "walk"

Propagate(res) == IF res \in {"conflict", "oserror"} THEN res ELSE "walk"

\* prepare_destination(args.destination), the first statement of main
Prepare ==
  /\ pc = "start"
  /\ LET r == IF ~Exists(fs, args.destination) THEN OsMkdir(fs, args.destination)
              ELSE IF ~IsDir(fs, args.destination) THEN Outcome("conflict", fs, <<>>)
              ELSE Outcome("noop", fs, <<>>)
     IN  /\ fs' = r.fs
         /\ fs0' = r.fs
         /\ pc' = IF r.res \in {"done", "noop"} THEN "prepared" ELSE r.res
  /\ UNCHANGED <<args, cache, stack, trace, calls>>

\* The head of create_links: the pattern sets of this call and the cache
\* after it.  The keys tested are "cl.cp" and "cl.ignore"; the keys written
\* are "cl.cp_re" and "cl.ignore_re".
CallHead(c, a) ==
  LET cpHit  == "cl.cp" \in DOMAIN c
      cp_re  == IF cpHit
                THEN (IF "cl.cp_re" \in DOMAIN c THEN c["cl.cp_re"] ELSE <<>>)
                ELSE CompileAll(a.copy \o a.copy_list_file)
      c1     == IF cpHit THEN c ELSE ("cl.cp_re" :> cp_re) @@ c
      ignHit == "cl.ignore" \in DOMAIN c1
      ign_re == IF ignHit
                THEN (IF "cl.ignore_re" \in DOMAIN c1 THEN c1["cl.ignore_re"] ELSE <<>>)
                ELSE CompileAll(a.ignore \o a.ignore_list_file)
      c2     == IF ignHit THEN c1 ELSE ("cl.ignore_re" :> ign_re) @@ c1
  IN  [copy_files_re |-> cp_re, ignore_files_re |-> ign_re, cache |-> c2,
       log |-> [cp |-> IF cpHit THEN "cached" ELSE "compiled",
                ignore |-> IF ignHit THEN "cached" ELSE "compiled"]]

\* the frame of a create_links call on path: its locals and the listing that
\* path.iterdir() takes when the loop starts
Frame(h, f, path) ==
  [path |-> path, todo |-> ListDir(f, path),
   copy_files_re |-> h.copy_files_re, ignore_files_re |-> h.ignore_files_re]

\* create_links(args), the call of main
CallTop ==
  /\ pc = "prepared"
  /\ LET h == CallHead(cache, args)
     IN  /\ cache' = h.cache
         /\ calls' = Append(calls, h.log)
         /\ stack' = <<Frame(h, fs, args.source)>>
  /\ pc' = "walk"
  /\ UNCHANGED <<fs, fs0, args, trace>>

Top == stack[Len(stack)]

Item(name) == Join(Top.path, <<name>>)

Target(name) == Join(args.destination, remove_front_dir(args.source, Item(name)))

Entry(o, name, r) ==
  [op |-> o, item |-> Item(name), target |-> Target(name), res |-> r.res, at |-> r.at]

Consumed(name) == [stack EXCEPT ![Len(stack)].todo = @ \ {name}]

\* what the loop body does with an entry that is not ignored
DecideCopyFirst(isdir, isdest, copy_required) ==
  IF copy_required THEN "copy"
  ELSE IF isdir THEN (IF isdest THEN "none" ELSE "mkdir")
  ELSE "link"

Decide(isdir, isdest, copy_required) ==
  IF isdir THEN (IF isdest THEN "none" ELSE "mkdir")
  ELSE IF copy_required THEN "copy"
  ELSE "link"

Decision(name) ==
  IF SkipItem(Top.ignore_files_re, Item(name)) THEN "ignore"
  ELSE Decide(IsDir(fs, Item(name)), Item(name) = args.destination,
              CopyRequired(Top.copy_files_re, Item(name)))

\* `if skip_item: continue`
IgnoreEntry ==
  /\ pc = "walk"
  /\ \E name \in Top.todo :
       /\ Decision(name) = "ignore"
       /\ trace' = Append(trace, Entry("ignore", name, Outcome("noop", fs, <<>>)))
       /\ stack' = Consumed(name)
  /\ UNCHANGED <<fs, fs0, args, cache, pc, calls>>

\* a directory that is args.destination: neither branch of the inner if runs
SkipDestination ==
  /\ pc = "walk"
  /\ \E name \in Top.todo :
       /\ Decision(name) = "none"
       /\ trace' = Append(trace, Entry("none", name, Outcome("noop", fs, <<>>)))
       /\ stack' = Consumed(name)
  /\ UNCHANGED <<fs, fs0, args, cache, pc, calls>>

\* executor.mkdir(target); create_links(args, item)
MkdirEntry ==
  /\ pc = "walk"
  /\ \E name \in Top.todo :
       /\ Decision(name) = "mkdir"
       /\ LET r == Executor_mkdir(args, fs, Target(name))
              h == CallHead(cache, args)
              descend == r.res \in {"done", "noop"}
              deep == Len(stack) >= MaxDepth
          IN  /\ fs' = r.fs
              /\ trace' = Append(trace, Entry("mkdir", name, r))
              /\ pc' = IF descend /\ deep THEN "oserror" ELSE Propagate(r.res)
              /\ stack' = IF pc' # "walk" THEN <<>>
                          ELSE IF descend
                               THEN Append(Consumed(name), Frame(h, r.fs, Item(name)))
                          ELSE Consumed(name)
              /\ cache' = IF descend /\ ~deep THEN h.cache ELSE cache
              /\ calls' = IF descend /\ ~deep THEN Append(calls, h.log) ELSE calls
  /\ UNCHANGED <<fs0, args>>

\* executor.copy(item, target)
CopyEntry ==
  /\ pc = "walk"
  /\ \E name \in Top.todo :
       /\ Decision(name) = "copy"
       /\ LET r == Executor_copy(args, fs, Item(name), Target(name))
          IN  /\ fs' = r.fs
              /\ trace' = Append(trace, Entry("copy", name, r))
              /\ pc' = Propagate(r.res)
              /\ stack' = IF pc' = "walk" THEN Consumed(name) ELSE <<>>
  /\ UNCHANGED <<fs0, args, cache, calls>>

\* executor.link(item, target)
LinkEntry ==
  /\ pc = "walk"
  /\ \E name \in Top.todo :
       /\ Decision(name) = "link"
       /\ LET r == Executor_link(args, fs, Item(name), Target(name))
          IN  /\ fs' = r.fs
              /\ trace' = Append(trace, Entry("link", name, r))
              /\ pc' = Propagate(r.res)
              /\ stack' = IF pc' = "walk" THEN Consumed(name) ELSE <<>>
  /\ UNCHANGED <<fs0, args, cache, calls>>

\* the loop of a call is exhausted: return to the caller, or to main
Return ==
  /\ pc = "walk"
  /\ Top.todo = {}
  /\ stack' = SubSeq(stack, 1, Len(stack) - 1)
  /\ pc' = IF Len(stack) = 1 THEN "done" ELSE "walk"
  /\ UNCHANGED <<fs, fs0, args, cache, trace, calls>>

Next ==
  \/ Prepare
  \/ CallTop
  \/ IgnoreEntry
  \/ SkipDestination
  \/ MkdirEntry
  \/ CopyEntry
  \/ LinkEntry
  \/ Return

Spec == Init /\ [][Next]_vars

\* ------------------------------------------------------------------------
\* Properties
\* ------------------------------------------------------------------------

ExecOps == {"mkdir", "link", "copy"}

\* some pattern of the configured list matches the path
AnyMatch(patterns, p) ==
  \E i \in 1..Len(patterns) : re_match(re_compile(patterns[i]), p)

IgnorePatterns == args.ignore \o args.ignore_list_file

CopyPatterns == args.copy \o args.copy_list_file

\* the path itself or one of its ancestors below the source root matches an
\* ignore pattern
UnderIgnored(p) ==
  \E k \in (Len(args.source) + 1)..Len(p) : AnyMatch(IgnorePatterns, SubSeq(p, 1, k))

\* canonical location c is loc or lies below it
AtOrBelow(c, loc) == Len(c) >= Len(loc) /\ SubSeq(c, 1, Len(loc)) = loc

Last(seq) == seq[Len(seq)]

\* C1: no executor operation is ever issued for an entry whose source path
\* matches an ignore pattern, nor for anything below such an entry, and such
\* a directory is never walked, whether or not a copy pattern matches too.
IgnorePrecedence ==
  /\ \A i \in 1..Len(trace) :
       /\ trace[i].op \in ExecOps => ~UnderIgnored(trace[i].item)
       /\ AnyMatch(IgnorePatterns, trace[i].item) => trace[i].op = "ignore"
  /\ \A j \in 1..Len(stack) : ~UnderIgnored(stack[j].path)

\* a finished mutating run that skipped an ignored directory which a copy
\* pattern matches as well, and still linked another entry
IgnorePrecedenceWitness ==
  /\ pc = "done"
  /\ ~args.dry_run
  /\ \E i \in 1..Len(trace) :
       /\ trace[i].op = "ignore"
       /\ IsDir(fs, trace[i].item)
       /\ AnyMatch(CopyPatterns, trace[i].item)
  /\ \E i \in 1..Len(trace) : trace[i].op = "link" /\ trace[i].res = "done"

SymlinkIsLeaf ==
  /\ \A i \in 1..Len(trace) :
       IsSymlink(fs, trace[i].item) => trace[i].op \in {"link", "copy", "ignore"}
  /\ \A j \in 1..Len(stack) : ~IsSymlink(fs, stack[j].path)

\* what the dry-run executor answers to the operation of a trace entry on
\* the filesystem it runs on, which no dry-run operation changes
DryAnswer(e) ==
  IF e.op = "mkdir" THEN DryRunExecutor_mkdir(fs0, e.target).res
  ELSE IF e.op = "link" THEN DryRunExecutor_link(fs0, e.item, e.target).res
  ELSE DryRunExecutor_copy(fs0, e.item, e.target).res

\* C4: every operation of a mutating walk ends as the dry run of the same
\* configuration on the same initial filesystem reports it: created where
\* the dry run prints the action, no-op where it prints nothing, conflict
\* where it raises the conflict.
DryRunFidelity ==
  ~args.dry_run =>
    \A i \in 1..Len(trace) :
      trace[i].op \in ExecOps => trace[i].res = DryAnswer(trace[i])

CreatedType(op) == IF op = "mkdir" THEN "dir" ELSE IF op = "link" THEN "symlink" ELSE "file"

\* C5: once an executor operation has raised a conflict, no further operation
\* is issued and the filesystem no longer changes; what the run created
\* before is still there.
AbortOnFirstConflict ==
  [][/\ (\E i \in 1..Len(trace) : trace[i].res = "conflict")
          => (trace' = trace /\ fs' = fs)
     /\ ~args.dry_run =>
          \A i \in 1..Len(trace') :
            (trace'[i].op \in ExecOps /\ trace'[i].res = "done")
              => /\ trace'[i].at \in DOMAIN fs'
                 /\ fs'[trace'[i].at].type = CreatedType(trace'[i].op)
  ]_vars

\* a mutating run stopped by a conflict below a directory it had created,
\* with entries of the enclosing directory still unprocessed
AbortWitness ==
  /\ pc = "conflict"
  /\ ~args.dry_run
  /\ Len(trace) >= 2
  /\ Last(trace).res = "conflict"
  /\ \E i \in 1..Len(trace) : trace[i].op \in ExecOps /\ trace[i].res = "done"
  /\ \E n \in ListDir(fs, args.source) :
       \A i \in 1..Len(trace) : trace[i].item # Join(args.source, <<n>>)

\* C6: the conflict rules of the mutating executor, on the filesystem before
\* the operation: make-directory conflicts exactly when the path holds an
\* entry that is no directory, does nothing on a directory and otherwise
\* creates it; create-link conflicts exactly when the target holds any entry;
\* copy-file conflicts exactly when the target is a directory and otherwise
\* replaces a regular file's content; a conflict changes nothing.
ExecutorConflictRules ==
  [][(Len(trace') = Len(trace) + 1 /\ ~args.dry_run) =>
       LET e == Last(trace')
           l == Lstat(fs, e.target)
           held == l.ok /\ l.present
           isdir == IsDir(fs, e.target)
       IN  /\ e.op = "mkdir" =>
                /\ e.res = "conflict" <=> (held /\ ~isdir)
                /\ e.res = "noop" <=> isdir
                /\ (~held /\ l.ok) => (e.res = "done" /\ IsDir(fs', e.target))
           /\ e.op = "link" =>
                /\ e.res = "conflict" <=> held
                /\ held => fs' = fs
           /\ e.op = "copy" =>
                /\ e.res = "conflict" <=> isdir
                /\ (held /\ fs[l.at].type = "file" /\ e.res = "done")
                     => fs'[l.at].data = fs[Stat(fs, e.item).at].data
           /\ e.res = "conflict" => fs' = fs
  ]_vars

\* C7: a symbolic link made by a mutating walk stores
\* relative_path(parent of its path, source entry), and following the stored
\* path from the directory that holds the link arrives at the source entry;
\* an absolute source entry is stored unchanged.
SymlinksResolve ==
  (~args.dry_run /\ ~args.hard_links) =>
    \A i \in 1..Len(trace) :
      (trace[i].op = "link" /\ trace[i].res = "done") =>
        LET e == trace[i]
            stored == fs[e.at].target
            w == Walk(fs, CanonParent(e.at), stored, FALSE, SymFuel)
        IN  /\ stored = relative_path(PathParent(e.target), e.item)
            /\ IsAbs(e.item) => stored = e.item
            /\ w.ok /\ w.present /\ w.at = Lstat(fs, e.item).at

\* C8: with the hard-link flag, a create-link that passes the target-exists
\* check leaves at the target an entry that is the same file as the source.
HardLinkCreated ==
  (~args.dry_run /\ args.hard_links) =>
    \A i \in 1..Len(trace) :
      (trace[i].op = "link" /\ trace[i].res # "conflict") =>
        LET t == Lstat(fs, trace[i].target)
        IN  /\ t.ok /\ t.present
            /\ fs[t.at].ino = fs[Lstat(fs, trace[i].item).at].ino

DestinationInsideSource ==
  /\ Stat(fs, args.destination).ok
  /\ AtOrBelow(Stat(fs, args.destination).at, Stat(fs, args.source).at)
  /\ Stat(fs, args.destination).at # Stat(fs, args.source).at

\* C9: with the destination root inside the source tree, a mutating walk
\* never walks the destination root or anything below it, and issues no
\* executor operation for an entry that lies in the destination.
SelfReferenceGuard ==
  (~args.dry_run /\ pc \in {"walk", "done", "conflict", "oserror"}
     /\ DestinationInsideSource) =>
    /\ \A j \in 1..Len(stack) :
         ~AtOrBelow(Stat(fs, stack[j].path).at, Stat(fs, args.destination).at)
    /\ \A i \in 1..Len(trace) :
         trace[i].op \in ExecOps =>
           ~AtOrBelow(Lstat(fs, trace[i].item).at, Stat(fs, args.destination).at)

\* C10: only the first call of create_links compiles the patterns and writes
\* the cache; every later call takes both pattern sets from the cache.
WriteOnceCache ==
  \A k \in 1..Len(calls) :
    IF k = 1 THEN calls[k] = [cp |-> "compiled", ignore |-> "compiled"]
             ELSE calls[k] = [cp |-> "cached", ignore |-> "cached"]

====
